---- MODULE Spec2Model ----
(***************************************************************************)
(* Readiness polling of scripts/test_local.py: wait_for_container_healthy  *)
(* and wait_for_ssh_service, with run_command and the container runtime    *)
(* they query; and the four driver scripts (test_local.py main, deploy.py, *)
(* health_check.py, validate.py) as sequential programs over the commands  *)
(* they run.                                                               *)
(*                                                                         *)
(* Time is in whole seconds.  The code reads the clock only as             *)
(* time.time() - start_time, so the model keeps that difference in         *)
(* `elapsed`.  Every external command takes either a short time            *)
(* (0..MaxFast seconds) and produces a result, or exactly its timeout and  *)
(* produces None (subprocess.TimeoutExpired).  Every call site of the two  *)
(* waits passes check=False, so run_command raises nothing there; other    *)
(* exceptions of subprocess.run are outside the model.                     *)
(***************************************************************************)
EXTENDS Integers, Sequences, FiniteSets, TLC

VARIABLES
    fn,             \* the wait being called: "container" or "ssh"
    container_name, \* parameter container_name
    timeout,        \* parameter timeout
    env,            \* the target: container, systemd and ssh service state
    pc,             \* position in the running wait
    elapsed,        \* time.time() - start_time
    ret,            \* the value returned (meaningful when pc = "done")
    reason,         \* which return statement ended the call
    h,              \* history of the current call (see NewHistory)
    calls,          \* number of calls of the wait started so far
    prev,           \* outcome of the previous call
    drv             \* the running driver script (see NewDriver)

vars == <<fn, container_name, timeout, env, pc, elapsed, ret, reason, h, calls, prev, drv>>

(***************************************************************************)
(* Bounds of the model.                                                    *)
(***************************************************************************)
MaxFast == 1        \* longest duration of a command that does not time out
ShortTimeout == 5   \* the smallest wait timeout tried
LongTimeout == 12   \* the largest wait timeout tried
MaxCount == 3       \* history counters saturate here
MaxCalls == 2       \* consecutive calls of the wait

(***************************************************************************)
(* Program constants.                                                      *)
(***************************************************************************)
DefaultCmdTimeout == 300   \* run_command(timeout=300)
SystemdCmdTimeout == 10    \* is-system-running --wait
ActiveCmdTimeout == 5      \* systemctl is-active ssh
PortCmdTimeout == 5        \* netstat | grep :22
StartCmdTimeout == 10      \* systemctl start ssh
StatusCmdTimeout == 5      \* systemctl status ssh
SleepNotFound == 3         \* sleep after "not found"
SleepNotUp == 2            \* sleep after a status that is not Up
SleepPoll == 3             \* sleep at the end of a poll of the container wait
SleepSsh == 3              \* sleep at the end of a poll of the ssh wait
DiagLongTimeout == 10      \* status -l and journalctl in the final diagnostics
DiagShortTimeout == 5      \* the other final diagnostics
NumDiagnostics == 6        \* commands of the final diagnostics

(***************************************************************************)
(* Text.  A string is a sequence of one-character strings, so that strip,  *)
(* startswith and `in` are computed as Python computes them.               *)
(***************************************************************************)
TxtEmpty == << >>
TxtNewline == <<"\n">>
TxtUp == <<"U","p"," ","5"," ","s","e","c","o","n","d","s","\n">>
TxtRestarting == <<"R","e","s","t","a","r","t","i","n","g"," ","(","1",")","\n">>
TxtCreated == <<"C","r","e","a","t","e","d","\n">>
TxtExited == <<"E","x","i","t","e","d"," ","(","1",")","\n">>
TxtActive == <<"a","c","t","i","v","e","\n">>
TxtInactive == <<"i","n","a","c","t","i","v","e","\n">>
TxtFailed == <<"f","a","i","l","e","d","\n">>
LitUp == <<"U","p">>
LitExited == <<"E","x","i","t","e","d">>
LitActive == <<"a","c","t","i","v","e">>
Whitespace == {" ", "\n", "\t"}

RECURSIVE LStrip(_)
LStrip(s) == IF s # << >> /\ Head(s) \in Whitespace THEN LStrip(Tail(s)) ELSE s

RECURSIVE RStrip(_)
RStrip(s) ==
    IF s # << >> /\ s[Len(s)] \in Whitespace THEN RStrip(SubSeq(s, 1, Len(s) - 1)) ELSE s

\* str.strip()
Strip(s) == RStrip(LStrip(s))

\* str.startswith(p)
StartsWith(s, p) == Len(s) >= Len(p) /\ SubSeq(s, 1, Len(p)) = p

\* p in s
Contains(s, p) == \E i \in 1..(Len(s) - Len(p) + 1) : SubSeq(s, i, i + Len(p) - 1) = p

(***************************************************************************)
(* run_command.  A result is a CompletedProcess (returncode, stdout) or    *)
(* None.                                                                   *)
(***************************************************************************)
Result(rc, out) == [none |-> FALSE, returncode |-> rc, stdout |-> out]
None == [none |-> TRUE, returncode |-> 0, stdout |-> TxtEmpty]

\* truth value of a result: a CompletedProcess is truthy, None is not
Truthy(r) == ~r.none

FastDurations == 0..MaxFast

\* The runs of a command that can produce `outcomes` under timeout `t`: it
\* returns one of them quickly, or it hangs, is killed after t seconds and
\* run_command returns None.
RunCommand(outcomes, t) ==
    {[res |-> r, dur |-> d] : r \in outcomes, d \in FastDurations}
        \cup {[res |-> None, dur |-> t]}

(***************************************************************************)
(* The container runtime and the services inside the container.            *)
(***************************************************************************)
ContainerStates == {"absent", "created", "restarting", "running", "exited"}
SystemdStates == {"starting", "running", "degraded"}
SshStates == {"inactive", "active", "failed"}

\* `docker ps --filter name=.. --format {{.Status}}`: the containers that
\* run.  The code provides for an Exited status in this listing (line 88),
\* so the runtime may print one for an exited container.
PsOutcomes(e) ==
    {Result(1, TxtEmpty)} \cup
    CASE e.container = "running" -> {Result(0, TxtUp)}
      [] e.container = "restarting" -> {Result(0, TxtRestarting)}
      [] e.container = "exited" -> {Result(0, TxtNewline), Result(0, TxtExited)}
      [] OTHER -> {Result(0, TxtEmpty)}

\* `docker ps -a ...`: every container that exists.
PsAllOutcomes(e) ==
    {Result(1, TxtEmpty)} \cup
    CASE e.container = "running" -> {Result(0, TxtUp)}
      [] e.container = "restarting" -> {Result(0, TxtRestarting)}
      [] e.container = "exited" -> {Result(0, TxtExited)}
      [] e.container = "created" -> {Result(0, TxtCreated)}
      [] OTHER -> {Result(0, TxtEmpty)}

\* `docker exec .. systemctl is-system-running --wait`: 0 when running, 1
\* when degraded; docker exec itself exits 1 when the container does not
\* run and 127 when the command is missing.  While systemd starts, --wait
\* blocks.
SystemdOutcomes(e) ==
    {Result(127, TxtEmpty)} \cup
    CASE e.container # "running" -> {Result(1, TxtEmpty)}
      [] e.systemd = "running" -> {Result(0, TxtEmpty)}
      [] e.systemd = "degraded" -> {Result(1, TxtEmpty)}
      [] OTHER -> {}

\* `docker exec .. systemctl is-active ssh`
ActiveOutcomes(e) ==
    CASE e.container # "running" -> {Result(1, TxtEmpty)}
      [] e.ssh = "active" -> {Result(0, TxtActive)}
      [] e.ssh = "inactive" -> {Result(3, TxtInactive)}
      [] OTHER -> {Result(3, TxtFailed)}

\* `docker exec .. netstat -tlnp | grep :22`: the exit code of grep
PortOutcomes(e) ==
    IF e.container = "running" /\ e.listening
    THEN {Result(0, TxtEmpty)} ELSE {Result(1, TxtEmpty)}

\* `docker exec .. systemctl status ssh --no-pager`
StatusOutcomes(e) ==
    IF e.container = "running" /\ e.ssh = "active"
    THEN {Result(0, TxtEmpty)} ELSE {Result(3, TxtEmpty)}

\* The target as the container wait finds it ready.
ContainerReady(e, name) ==
    /\ e.container = "running"
    /\ name = "test-vps" => e.systemd \in {"running", "degraded"}

\* The target as the ssh wait finds it ready.
SshReady(e) == e.container = "running" /\ e.ssh = "active" /\ e.listening

TargetReady == IF fn = "container" THEN ContainerReady(env, container_name) ELSE SshReady(env)

(***************************************************************************)
(* History of one call: what the call has done so far.  It records, it     *)
(* decides nothing.                                                        *)
(*   polls, sleeps   polls begun and sleeps taken (saturating at MaxCount) *)
(*   logFetches      `docker logs --tail` commands issued                  *)
(*   cls, clsAt      classification of the last classified poll, and the   *)
(*                   elapsed time at which it was made                     *)
(*   seen            the classifications made in this call                 *)
(*   ops             the commands and sleeps of the current poll           *)
(*   pollStart       elapsed time at which the current poll began          *)
(*   probeFailed     the status probe of the current poll returned None or *)
(*                   a non-zero exit                                       *)
(*   activeOk/portOk the current poll saw exit code 0 with 'active' in the *)
(*                   output / exit code 0 of the port check                *)
(*   started         `systemctl start ssh` was issued in this call         *)
(*   changed         a command of the wait changed the target              *)
(*   disturbed       a command timed out or failed to execute, or the      *)
(*                   target changed by itself, during this call            *)
(*   readyAtCall     the target was ready when the call began              *)
(*   diag            final diagnostics run                                 *)
(***************************************************************************)
Inc(n) == IF n < MaxCount THEN n + 1 ELSE n

NewHistory(ready) ==
    [polls |-> 0, sleeps |-> 0, logFetches |-> 0, cls |-> "none", clsAt |-> 0,
     seen |-> {}, ops |-> << >>, pollStart |-> 0, probeFailed |-> FALSE,
     activeOk |-> FALSE, portOk |-> FALSE, started |-> FALSE, changed |-> FALSE,
     disturbed |-> FALSE, readyAtCall |-> ready, diag |-> 0, sysRes |-> << >>]

BeginPoll(hh, at) ==
    [hh EXCEPT !.polls = Inc(@), !.ops = << >>, !.pollStart = at,
               !.probeFailed = FALSE, !.activeOk = FALSE, !.portOk = FALSE,
               !.sysRes = << >>]

\* command `op` was run and gave result r
Ran(hh, op, r) ==
    [hh EXCEPT !.ops = Append(@, op),
               !.sysRes = IF op = "systemd" THEN <<r>> ELSE @,
               !.disturbed = @ \/ r.none \/ r.returncode = 127
                               \/ (op \in {"ps", "ps_a"} /\ r.returncode # 0)]

Classified(hh, c, at) == [hh EXCEPT !.cls = c, !.clsAt = at, !.seen = @ \cup {c}]

Slept(hh) == [hh EXCEPT !.sleeps = Inc(@), !.ops = Append(@, "sleep")]

(***************************************************************************)
(* The conditions of the two waits.                                        *)
(***************************************************************************)
\* faulty variants: the loop gives up one sleep early / runs once more at
\* the deadline
LoopCondition_Early(e, t) == e + SleepPoll < t
LoopCondition_Late(e, t) == e <= t
\* while time.time() - start_time < timeout
LoopCondition(e, t) == e < t

\* not result or not result.stdout.strip()
NoOutput(r) == ~Truthy(r) \/ Strip(r.stdout) = TxtEmpty

\* stopped_result and stopped_result.stdout.strip()
ExistsStopped(r) == Truthy(r) /\ Strip(r.stdout) # TxtEmpty

\* faulty variant: only exit code 0 counts as ready
SystemdReady_OnlyZero(r) == Truthy(r) /\ r.returncode = 0
\* result and result.returncode in [0, 1]
SystemdReady(r) == Truthy(r) /\ r.returncode \in {0, 1}

\* faulty variant: compares the unstripped output with 'active'
SshActive_ExactMatch(r) == Truthy(r) /\ r.returncode = 0 /\ r.stdout = LitActive
\* result and result.returncode == 0 and 'active' in result.stdout
SshActive(r) == Truthy(r) /\ r.returncode = 0 /\ Contains(r.stdout, LitActive)

\* faulty variant: ignores the exit code of the port check
PortListening_AnyExit(r) == Truthy(r)
\* port_check and port_check.returncode == 0
PortListening(r) == Truthy(r) /\ r.returncode = 0

(***************************************************************************)
(* wait_for_container_healthy                                              *)
(***************************************************************************)
Return(value, why) == pc' = "done" /\ ret' = value /\ reason' = why

Params == <<fn, container_name, timeout, calls, prev, drv>>

\* One pass of the loop up to the classification of the first listing
\* (lines 65-69, 83-98, 113-116).
PollStatus ==
    /\ fn = "container" /\ pc = "loop"
    /\ LoopCondition(elapsed, timeout)
    /\ \E run \in RunCommand(PsOutcomes(env), DefaultCmdTimeout) :
         LET r == run.res
             t == elapsed + run.dur
             hb == Ran(BeginPoll(h, elapsed), "ps", r)
             status == Strip(r.stdout)
         IN /\ elapsed' = t
            /\ IF NoOutput(r)
               THEN /\ pc' = "ps_a"
                    /\ h' = [hb EXCEPT !.probeFailed = r.none \/ r.returncode # 0]
                    /\ UNCHANGED <<ret, reason>>
               ELSE IF ~StartsWith(status, LitUp)
               THEN IF Contains(status, LitExited)
                    THEN /\ pc' = "logs30"
                         /\ h' = Classified(hb, "Exited", t)
                         /\ UNCHANGED <<ret, reason>>
                    ELSE /\ pc' = "sleep2"
                         /\ h' = Classified(hb, "Starting", t)
                         /\ UNCHANGED <<ret, reason>>
               ELSE IF container_name = "test-vps"
               THEN /\ pc' = "systemd"
                    /\ h' = hb
                    /\ UNCHANGED <<ret, reason>>
               ELSE /\ Return(TRUE, "ready")
                    /\ h' = Classified(hb, "Ready", t)
    /\ UNCHANGED <<Params, env>>

\* The second listing, `docker ps -a` (lines 70-79).
PollStopped ==
    /\ fn = "container" /\ pc = "ps_a"
    /\ \E run \in RunCommand(PsAllOutcomes(env), DefaultCmdTimeout) :
         LET r == run.res
             t == elapsed + run.dur
             hb == Ran(h, "ps_a", r)
         IN /\ elapsed' = t
            /\ IF ExistsStopped(r)
               THEN pc' = "logs20" /\ h' = Classified(hb, "Exited", t)
               ELSE pc' = "sleep3a" /\ h' = Classified(hb, "Absent", t)
    /\ UNCHANGED <<Params, env, ret, reason>>

\* faulty variant: no return after the log fetch
FetchLogs_KeepPolling ==
    /\ fn = "container" /\ pc \in {"logs20", "logs30"}
    /\ \E run \in RunCommand({Result(0, TxtEmpty), Result(1, TxtEmpty)}, DefaultCmdTimeout) :
         /\ elapsed' = elapsed + run.dur
         /\ h' = [Ran(h, "logs", run.res) EXCEPT !.logFetches = @ + 1]
    /\ pc' = "sleep3"
    /\ UNCHANGED <<Params, env, ret, reason>>

\* `docker logs .. --tail 20|30`, then return False (lines 73-77, 89-92).
FetchLogs ==
    /\ fn = "container" /\ pc \in {"logs20", "logs30"}
    /\ \E run \in RunCommand({Result(0, TxtEmpty), Result(1, TxtEmpty)}, DefaultCmdTimeout) :
         /\ elapsed' = elapsed + run.dur
         /\ h' = [Ran(h, "logs", run.res) EXCEPT !.logFetches = @ + 1]
    /\ Return(FALSE, "exited")
    /\ UNCHANGED <<Params, env>>

\* faulty variant: no return when systemd is ready
SystemdCheck_NoReturn ==
    /\ fn = "container" /\ pc = "systemd"
    /\ \E run \in RunCommand(SystemdOutcomes(env), SystemdCmdTimeout) :
         LET r == run.res
             t == elapsed + run.dur
             hb == Ran(h, "systemd", r)
         IN /\ elapsed' = t
            /\ pc' = "sleep3"
            /\ h' = Classified(hb, IF SystemdReady(r) THEN "Ready" ELSE "Starting", t)
            /\ UNCHANGED <<ret, reason>>
    /\ UNCHANGED <<Params, env>>

\* `systemctl is-system-running --wait` for test-vps (lines 98-111).
SystemdCheck ==
    /\ fn = "container" /\ pc = "systemd"
    /\ \E run \in RunCommand(SystemdOutcomes(env), SystemdCmdTimeout) :
         LET r == run.res
             t == elapsed + run.dur
             hb == Ran(h, "systemd", r)
         IN /\ elapsed' = t
            /\ IF SystemdReady(r)
               THEN /\ Return(TRUE, "ready")
                    /\ h' = Classified(hb, "Ready", t)
               ELSE /\ pc' = "sleep3"
                    /\ h' = Classified(hb, "Starting", t)
                    /\ UNCHANGED <<ret, reason>>
    /\ UNCHANGED <<Params, env>>

\* time.sleep(3); continue (lines 80-81)
SleepNotFoundStep ==
    /\ fn = "container" /\ pc = "sleep3a"
    /\ elapsed' = elapsed + SleepNotFound
    /\ h' = Slept(h)
    /\ pc' = "loop"
    /\ UNCHANGED <<Params, env, ret, reason>>

\* time.sleep(2); continue (lines 94-95)
SleepNotUpStep ==
    /\ fn = "container" /\ pc = "sleep2"
    /\ elapsed' = elapsed + SleepNotUp
    /\ h' = Slept(h)
    /\ pc' = "loop"
    /\ UNCHANGED <<Params, env, ret, reason>>

\* faulty variant: the poll that found systemd not ready does not sleep
SleepPollStep_NoSleep ==
    /\ fn = "container" /\ pc = "sleep3"
    /\ elapsed' = elapsed
    /\ h' = Slept(h)
    /\ pc' = "loop"
    /\ UNCHANGED <<Params, env, ret, reason>>

\* time.sleep(3) at the end of the loop body (line 121)
SleepPollStep ==
    /\ fn = "container" /\ pc = "sleep3"
    /\ elapsed' = elapsed + SleepPoll
    /\ h' = Slept(h)
    /\ pc' = "loop"
    /\ UNCHANGED <<Params, env, ret, reason>>

\* faulty variant: fetches the logs on the timeout path too
ContainerTimeout_WithLogs ==
    /\ fn = "container" /\ pc = "loop"
    /\ ~LoopCondition(elapsed, timeout)
    /\ Return(FALSE, "timeout")
    /\ h' = [h EXCEPT !.logFetches = @ + 1]
    /\ UNCHANGED <<Params, env, elapsed>>

\* The loop ends: "did not become ready within", return False (lines 123-124).
ContainerTimeout ==
    /\ fn = "container" /\ pc = "loop"
    /\ ~LoopCondition(elapsed, timeout)
    /\ Return(FALSE, "timeout")
    /\ UNCHANGED <<Params, env, elapsed, h>>

(***************************************************************************)
(* wait_for_ssh_service                                                    *)
(***************************************************************************)
\* What `systemctl start ssh` can leave behind.  A start that is killed at
\* its timeout may or may not have taken effect.
StartEffects(e, r) ==
    IF e.container # "running" \/ e.ssh = "active" THEN {e}
    ELSE IF r.none THEN {e, [e EXCEPT !.ssh = "active"], [e EXCEPT !.ssh = "failed"]}
    ELSE IF r.returncode = 0 THEN {[e EXCEPT !.ssh = "active"]}
    ELSE {[e EXCEPT !.ssh = "failed"]}

StartOutcomes(e) ==
    IF e.container # "running" THEN {Result(1, TxtEmpty)}
    ELSE IF e.ssh = "active" THEN {Result(0, TxtEmpty)}
    ELSE {Result(0, TxtEmpty), Result(1, TxtEmpty)}

\* `systemctl is-active ssh` at the head of a poll (lines 132-143, 157-159).
SshCheckActive ==
    /\ fn = "ssh" /\ pc = "loop"
    /\ LoopCondition(elapsed, timeout)
    /\ \E run \in RunCommand(ActiveOutcomes(env), ActiveCmdTimeout) :
         LET r == run.res
             hb == Ran(BeginPoll(h, elapsed), "active", r)
             ok == ~r.none /\ r.returncode = 0 /\ Contains(r.stdout, LitActive)
         IN /\ elapsed' = elapsed + run.dur
            /\ h' = [hb EXCEPT !.activeOk = ok]
            /\ pc' = IF SshActive(r) THEN "port" ELSE "start"
    /\ UNCHANGED <<Params, env, ret, reason>>

\* faulty variant: starts the service when it is active but not listening
SshCheckPort_Restart ==
    /\ fn = "ssh" /\ pc = "port"
    /\ \E run \in RunCommand(PortOutcomes(env), PortCmdTimeout) :
         LET r == run.res
             t == elapsed + run.dur
             hb == [Ran(h, "port", r) EXCEPT !.portOk = ~r.none /\ r.returncode = 0]
         IN /\ elapsed' = t
            /\ IF PortListening(r)
               THEN /\ Return(TRUE, "ready")
                    /\ h' = Classified(hb, "Ready", t)
               ELSE /\ pc' = "start"
                    /\ h' = Classified(hb, "Starting", t)
                    /\ UNCHANGED <<ret, reason>>
    /\ UNCHANGED <<Params, env>>

\* `netstat -tlnp | grep :22` once the service is active (lines 144-156).
SshCheckPort ==
    /\ fn = "ssh" /\ pc = "port"
    /\ \E run \in RunCommand(PortOutcomes(env), PortCmdTimeout) :
         LET r == run.res
             t == elapsed + run.dur
             hb == [Ran(h, "port", r) EXCEPT !.portOk = ~r.none /\ r.returncode = 0]
         IN /\ elapsed' = t
            /\ IF PortListening(r)
               THEN /\ Return(TRUE, "ready")
                    /\ h' = Classified(hb, "Ready", t)
               ELSE /\ pc' = "sleep3"
                    /\ h' = Classified(hb, "Starting", t)
                    /\ UNCHANGED <<ret, reason>>
    /\ UNCHANGED <<Params, env>>

\* faulty variant: gives up when the start command fails
SshStart_GiveUp ==
    /\ fn = "ssh" /\ pc = "start"
    /\ \E run \in RunCommand(StartOutcomes(env), StartCmdTimeout) :
         LET r == run.res
             t == elapsed + run.dur
         IN /\ elapsed' = t
            /\ \E e2 \in StartEffects(env, r) :
                 /\ env' = e2
                 /\ h' = [Classified(Ran(h, "start", r), "Starting", t)
                             EXCEPT !.started = TRUE, !.changed = @ \/ e2 # env]
            /\ IF Truthy(r) /\ r.returncode # 0
               THEN Return(FALSE, "exited")
               ELSE /\ pc' = IF Truthy(r) THEN "status" ELSE "sleep3"
                    /\ UNCHANGED <<ret, reason>>
    /\ UNCHANGED Params

\* `systemctl start ssh` when the service is not active (lines 158-168).
SshStart ==
    /\ fn = "ssh" /\ pc = "start"
    /\ \E run \in RunCommand(StartOutcomes(env), StartCmdTimeout) :
         LET r == run.res
             t == elapsed + run.dur
         IN /\ elapsed' = t
            /\ \E e2 \in StartEffects(env, r) :
                 /\ env' = e2
                 /\ h' = [Classified(Ran(h, "start", r), "Starting", t)
                             EXCEPT !.started = TRUE, !.changed = @ \/ e2 # env]
            /\ pc' = IF Truthy(r) THEN "status" ELSE "sleep3"
    /\ UNCHANGED <<Params, ret, reason>>

\* `systemctl status ssh --no-pager` after a start that returned (169-174).
SshStatus ==
    /\ fn = "ssh" /\ pc = "status"
    /\ \E run \in RunCommand(StatusOutcomes(env), StatusCmdTimeout) :
         /\ elapsed' = elapsed + run.dur
         /\ h' = Ran(h, "status", run.res)
    /\ pc' = "sleep3"
    /\ UNCHANGED <<Params, env, ret, reason>>

\* time.sleep(3) at the end of the loop body (line 179)
SshSleepStep ==
    /\ fn = "ssh" /\ pc = "sleep3"
    /\ elapsed' = elapsed + SleepSsh
    /\ h' = Slept(h)
    /\ pc' = "loop"
    /\ UNCHANGED <<Params, env, ret, reason>>

DiagTimeout(i) == IF i <= 2 THEN DiagLongTimeout ELSE DiagShortTimeout

\* The total time the diagnostic commands i..NumDiagnostics can take.
RECURSIVE DiagDurations(_)
DiagDurations(i) ==
    IF i > NumDiagnostics THEN {0}
    ELSE {d + rest : d \in FastDurations \cup {DiagTimeout(i)}, rest \in DiagDurations(i + 1)}

\* The six final diagnostic commands, then return False (lines 181-197).
SshDiagnostics ==
    /\ fn = "ssh" /\ pc = "loop"
    /\ ~LoopCondition(elapsed, timeout)
    /\ \E d \in DiagDurations(1) : elapsed' = elapsed + d
    /\ h' = [h EXCEPT !.diag = @ + NumDiagnostics]
    /\ Return(FALSE, "timeout")
    /\ UNCHANGED <<Params, env>>

(***************************************************************************)
(* The target changes by itself while a wait runs: the container boots,    *)
(* restarts or exits, systemd finishes starting, sshd comes up.            *)
(***************************************************************************)
EnvSteps(e) ==
    IF fn = "container"
    THEN CASE e.container = "absent" -> {[e EXCEPT !.container = "created"]}
           [] e.container = "created" ->
                {[e EXCEPT !.container = "running", !.systemd = "starting"]}
           [] e.container = "restarting" ->
                {[e EXCEPT !.container = "running", !.systemd = "starting"],
                 [e EXCEPT !.container = "exited"]}
           [] e.container = "running" ->
                {[e EXCEPT !.container = "exited"], [e EXCEPT !.container = "restarting"]}
                \cup (IF e.systemd = "starting"
                      THEN {[e EXCEPT !.systemd = "running"], [e EXCEPT !.systemd = "degraded"]}
                      ELSE {})
           [] OTHER -> {}
    ELSE IF e.container # "running" THEN {}
    ELSE {[e EXCEPT !.container = "exited"]}
         \cup (IF e.ssh = "inactive" THEN {[e EXCEPT !.ssh = "active"]} ELSE {})
         \cup (IF e.ssh = "active" /\ ~e.listening THEN {[e EXCEPT !.listening = TRUE]} ELSE {})

EnvStep ==
    /\ pc # "done"
    /\ \E e2 \in EnvSteps(env) : env' = e2
    /\ h' = [h EXCEPT !.disturbed = TRUE]
    /\ UNCHANGED <<Params, pc, elapsed, ret, reason>>

(***************************************************************************)
(* Calls.                                                                  *)
(***************************************************************************)
\* The steps of the running wait itself.  The interpreter runs the next
\* statement of the call whenever there is one: a command either completes
\* or is cut off by its timeout, and a sleep ends.
WaitStep ==
    \/ PollStatus
    \/ PollStopped
    \/ FetchLogs
    \/ SystemdCheck
    \/ SleepNotFoundStep
    \/ SleepNotUpStep
    \/ SleepPollStep
    \/ ContainerTimeout
    \/ SshCheckActive
    \/ SshCheckPort
    \/ SshStart
    \/ SshStatus
    \/ SshSleepStep
    \/ SshDiagnostics

\* What a caller sees of a call that has returned, with what the call did.
Outcome ==
    [ret |-> ret, reason |-> reason,
     immediate |-> h.polls = 1 /\ h.sleeps = 0,
     started |-> h.started, changed |-> h.changed,
     quiet |-> h.readyAtCall /\ ~h.disturbed]

NoPrev ==
    [ret |-> FALSE, reason |-> "none", immediate |-> FALSE,
     started |-> FALSE, changed |-> FALSE, quiet |-> FALSE]

\* The caller calls the same wait once more on the target as it is now.
CallAgain ==
    /\ pc = "done" /\ calls < MaxCalls
    /\ calls' = calls + 1
    /\ prev' = Outcome
    /\ pc' = "loop" /\ elapsed' = 0 /\ ret' = FALSE /\ reason' = "none"
    /\ h' = NewHistory(TargetReady)
    /\ UNCHANGED <<fn, container_name, timeout, env, drv>>

(***************************************************************************)
(* The driver scripts: scripts/test_local.py main, deployment/deploy.py,   *)
(* utilities/health_check.py and scripts/validate.py.  Each is a           *)
(* sequential program; `drv` holds its position, its inputs and what it    *)
(* has done so far.  The drivers read no clock, so the duration of their   *)
(* commands is left out: a command either completes with an exit code or   *)
(* runs into its timeout.                                                  *)
(***************************************************************************)
NewDriver(script) ==
    [script |-> script, pc |-> "start", code |-> 0,
     stages |-> << >>,          \* named stages started, in order
     failedAt |-> "none",       \* the stage a command of which failed first
     cmds |-> 0,                \* external commands run so far
     prereqMissing |-> FALSE,   \* the prerequisite check found a tool missing
     missingAt |-> 0,           \* value of cmds when it found that
     successMsg |-> FALSE,      \* the final success message was printed
     \* test_local.py
     containerOk |-> FALSE, credFailed |-> FALSE, probesFailed |-> {},
     \* deploy.py
     action |-> "none", invoked |-> FALSE, invokedOk |-> FALSE,
     \* health_check.py
     skip_endpoints |-> FALSE, executed |-> << >>, returned |-> << >>,
     inventory |-> TRUE, failed_checks |-> << >>, probeFailed |-> FALSE,
     \* validate.py
     skip_docker_pull |-> FALSE, i |-> 0, tests_passed |-> 0, tests_failed |-> 0,
     last |-> "none", pulls |-> 0]

\* no driver is running (the waits are called on their own)
NoDriver == NewDriver("none")

\* sys.exit(c), or the end of main for c = 0
Exit(d, c) == [d EXCEPT !.pc = "exit", !.code = c]

StartStage(d, stage) == [d EXCEPT !.stages = Append(@, stage)]

FailStage(d, stage) ==
    [d EXCEPT !.failedAt = IF @ = "none" THEN stage ELSE @]

Commands(d, n) == [d EXCEPT !.cmds = @ + n]

\* what subprocess.run can give a driver: exit code 0, a non-zero exit code,
\* or (with a timeout) no result
CmdResults == {Result(0, TxtEmpty), Result(1, TxtEmpty), None}

\* run_command of test_local.py with check=True: a non-zero exit code raises
\* CalledProcessError inside, which is caught and turned into None
Checked(r) == IF Truthy(r) /\ r.returncode # 0 THEN None ELSE r

\* the variables of the two waits, which no driver action touches
WaitVars == <<fn, container_name, timeout, env, pc, elapsed, ret, reason, h, calls, prev>>

(***************************************************************************)
(* scripts/test_local.py: main and setup_ssh_access.  The two waits are    *)
(* modelled above; main only branches on the boolean they return, so here  *)
(* each is a step that returns either value.                               *)
(***************************************************************************)
\* `docker info` (lines 249-259)
LocalDockerInfo ==
    /\ drv.script = "local" /\ drv.pc = "start"
    /\ \E x \in CmdResults :
         LET result == Checked(x)
             d == Commands(StartStage(drv, "prerequisite check"), 1)
         IN drv' = IF Truthy(result) /\ result.returncode = 0
                   THEN [d EXCEPT !.pc = "compose"]
                   ELSE Exit([FailStage(d, "prerequisite check")
                                EXCEPT !.prereqMissing = TRUE, !.missingAt = d.cmds], 1)
    /\ UNCHANGED WaitVars

\* docker-compose down, then docker-compose up (lines 265-276)
LocalCompose ==
    /\ drv.script = "local" /\ drv.pc = "compose"
    /\ \E down \in CmdResults, x \in CmdResults :
         LET result == Checked(x)
             d == Commands(drv, 2)
         IN drv' = IF ~Truthy(result)
                   THEN Exit(d, 1)
                   ELSE [d EXCEPT !.pc = "wait_container"]
    /\ UNCHANGED WaitVars

\* number of commands printed after a failed container wait (lines 282-288)
NumContainerDiagnostics == 3

\* faulty variant: the result of the container wait is ignored
LocalWaitContainer_Ignored ==
    /\ drv.script = "local" /\ drv.pc = "wait_container"
    /\ \E ok \in BOOLEAN :
         LET d == StartStage(drv, "container wait")
         IN drv' = [d EXCEPT !.pc = "wait_ssh", !.containerOk = ok]
    /\ UNCHANGED WaitVars

\* wait_for_container_healthy('test-vps', timeout=180) (lines 278-290)
LocalWaitContainer ==
    /\ drv.script = "local" /\ drv.pc = "wait_container"
    /\ \E ok \in BOOLEAN :
         LET d == StartStage(drv, "container wait")
         IN drv' = IF ~ok
                   THEN Exit(Commands(FailStage(d, "container wait"),
                                      NumContainerDiagnostics), 1)
                   ELSE [d EXCEPT !.pc = "wait_ssh", !.containerOk = TRUE]
    /\ UNCHANGED WaitVars

\* wait_for_ssh_service('test-vps', timeout=60) (lines 292-295)
LocalWaitSsh ==
    /\ drv.script = "local" /\ drv.pc = "wait_ssh"
    /\ \E ok \in BOOLEAN :
         LET d == StartStage(drv, "ssh wait")
         IN drv' = IF ~ok
                   THEN Exit(FailStage(d, "ssh wait"), 1)
                   ELSE [d EXCEPT !.pc = "setup_ssh"]
    /\ UNCHANGED WaitVars

\* the docker exec commands of setup_ssh_access: mkdir, echo, chmod, chown
NumCredentialCommands == 4

\* The value setup_ssh_access returns (lines 206-231): False when the key
\* had to be generated and ssh-keygen failed, or when reading the public
\* key raised; the results of the docker exec commands are not looked at.
SetupSshAccess(keyExists, keygen, execs, readable) ==
    (keyExists \/ Truthy(Checked(keygen))) /\ readable

\* setup_ssh_access() as called by main (lines 199-231, 297-299)
LocalSetupSsh ==
    /\ drv.script = "local" /\ drv.pc = "setup_ssh"
    /\ \E keyExists \in BOOLEAN, keygen \in CmdResults, readable \in BOOLEAN,
          execs \in [1..NumCredentialCommands -> CmdResults] :
         LET generated == keyExists \/ Truthy(Checked(keygen))
             \* the docker exec commands that were reached
             reached == IF ~generated THEN {}
                        ELSE IF ~readable THEN {1}
                        ELSE 1..NumCredentialCommands
             failed == (~generated) \/ (\E k \in reached : ~Truthy(Checked(execs[k])))
             d0 == Commands(StartStage(drv, "credential installation"),
                            (IF keyExists THEN 0 ELSE 1) + Cardinality(reached))
             d1 == IF failed \/ (generated /\ ~readable)
                   THEN FailStage(d0, "credential installation") ELSE d0
             d == [d1 EXCEPT !.credFailed = \E k \in reached : ~Truthy(Checked(execs[k]))]
         IN drv' = IF ~SetupSshAccess(keyExists, keygen, execs, readable)
                   THEN Exit(d, 1)
                   ELSE [d EXCEPT !.pc = "ansible"]
    /\ UNCHANGED WaitVars

\* number of commands run after a failed connectivity test (lines 317-341)
NumPingDiagnostics == 7

\* ansible ping, then ansible-playbook (lines 301-360)
LocalAnsible ==
    /\ drv.script = "local" /\ drv.pc = "ansible"
    /\ \E ping \in CmdResults, result \in CmdResults :
         LET d == StartStage(drv, "orchestration invocation")
         IN drv' = IF ~Truthy(ping) \/ ping.returncode # 0
                   THEN Exit(Commands(FailStage(d, "orchestration invocation"),
                                      1 + NumPingDiagnostics), 1)
                   ELSE IF ~Truthy(result) \/ result.returncode # 0
                   THEN Exit([Commands(FailStage(d, "orchestration invocation"), 2)
                                EXCEPT !.invoked = TRUE], 1)
                   ELSE [Commands(d, 2) EXCEPT !.pc = "probes", !.invoked = TRUE,
                                               !.invokedOk = TRUE]
    /\ UNCHANGED WaitVars

\* endpoints (lines 379-383)
LocalEndpoints == {"Grafana", "Prometheus", "Loki"}

\* faulty variant: an endpoint that does not respond ends the run with 1
LocalProbes_Strict ==
    /\ drv.script = "local" /\ drv.pc = "probes"
    /\ \E list \in CmdResults, down \in SUBSET LocalEndpoints :
         LET d == [Commands(StartStage(drv, "http probes"), 1)
                     EXCEPT !.probesFailed = down]
         IN drv' = IF down # {} THEN Exit(d, 1)
                   ELSE Exit([d EXCEPT !.successMsg = TRUE], 0)
    /\ UNCHANGED WaitVars

\* the container listing, the HTTP probes and the end of main (lines 362-401)
LocalProbes ==
    /\ drv.script = "local" /\ drv.pc = "probes"
    /\ \E list \in CmdResults, down \in SUBSET LocalEndpoints :
         LET d == [Commands(StartStage(drv, "http probes"), 1)
                     EXCEPT !.probesFailed = down]
         IN drv' = Exit([d EXCEPT !.successMsg = TRUE], 0)
    /\ UNCHANGED WaitVars

(***************************************************************************)
(* scripts/deployment/deploy.py                                            *)
(***************************************************************************)
\* what subprocess.run gives deploy.py and health_check.py, which pass no
\* timeout: exit code 0 or a non-zero exit code
ExitResults == {Result(0, TxtEmpty), Result(1, TxtEmpty)}

\* run_command of deploy.py (lines 25-43): with check, a non-zero exit code
\* ends the process with sys.exit(1); without, the result is returned
RunExits(r, check) == check /\ r.returncode # 0

Actions == {"check", "plan", "apply", "cleanup"}

\* the check argument of the action's ansible-playbook call
\* (lines 67, 78, 89: default True; lines 103-104: check=False)
ActionChecks(action) == action # "cleanup"

\* the ansible directory check of main (lines 121-129)
DeployStart ==
    /\ drv.script = "deploy" /\ drv.pc = "start"
    /\ \E ansibleDir \in BOOLEAN :
         drv' = IF ~ansibleDir THEN Exit(drv, 1)
                ELSE [drv EXCEPT !.pc = "prerequisites"]
    /\ UNCHANGED WaitVars

\* check_prerequisites (lines 45-56, 131-132)
DeployCheckPrerequisites ==
    /\ drv.script = "deploy" /\ drv.pc = "prerequisites"
    /\ \E result \in ExitResults :
         LET d == Commands(StartStage(drv, "prerequisite check"), 1)
         IN drv' = IF RunExits(result, TRUE) \/ result.returncode # 0
                   THEN Exit([FailStage(d, "prerequisite check")
                                EXCEPT !.prereqMissing = TRUE, !.missingAt = d.cmds], 1)
                   ELSE [d EXCEPT !.pc = "action"]
    /\ UNCHANGED WaitVars

\* the requested action and the end of main (lines 58-106, 134-144)
DeployAction ==
    /\ drv.script = "deploy" /\ drv.pc = "action"
    /\ \E inventory \in BOOLEAN, cleanup_playbook \in BOOLEAN, result \in ExitResults :
         LET d == StartStage(drv, drv.action)
             ran == [Commands(d, 1) EXCEPT !.invoked = TRUE,
                                           !.invokedOk = result.returncode = 0]
         IN drv' = IF ~inventory
                   THEN Exit(d, 1)
                   ELSE IF drv.action = "cleanup" /\ ~cleanup_playbook
                   THEN Exit([d EXCEPT !.successMsg = TRUE], 0)
                   ELSE IF RunExits(result, ActionChecks(drv.action))
                   THEN Exit(FailStage(ran, drv.action), 1)
                   ELSE Exit([ran EXCEPT !.successMsg = TRUE], 0)
    /\ UNCHANGED WaitVars

(***************************************************************************)
(* scripts/utilities/health_check.py                                       *)
(***************************************************************************)
\* checks (lines 171-179)
HealthChecks(skip_endpoints) ==
    <<"connectivity", "system resources", "services", "docker containers">>
        \o (IF skip_endpoints THEN << >> ELSE <<"monitoring endpoints">>)

\* the largest number of ansible commands one check runs (lines 64-69)
MaxCheckCommands == 4

\* the number of ansible commands each check runs
\* (lines 51, 64-69, 89-92, 112-115, 135-139)
CheckCommands(name) ==
    CASE name = "connectivity" -> 1
      [] name = "system resources" -> 4
      [] name = "services" -> 2
      [] name = "docker containers" -> 2
      [] name = "monitoring endpoints" -> 3

\* faulty variant: an endpoint that does not respond fails its check
CheckFunction_EndpointsCount(name, inventory, oks) ==
    inventory /\ \A k \in 1..CheckCommands(name) : oks[k]
\* The value a check function returns (lines 41-148): False without the
\* inventory file; otherwise whether every command of it succeeded, except
\* that check_monitoring_endpoints returns True whatever its commands did.
\* oks[k] is what run_ansible_command (lines 24-39) returned for command k.
CheckFunction(name, inventory, oks) ==
    /\ inventory
    /\ name # "monitoring endpoints" => \A k \in 1..CheckCommands(name) : oks[k]

\* the ansible directory check of main (lines 162-181)
HealthStart ==
    /\ drv.script = "health" /\ drv.pc = "start"
    /\ \E ansibleDir \in BOOLEAN :
         drv' = IF ~ansibleDir THEN Exit(drv, 1)
                ELSE [drv EXCEPT !.pc = "checks", !.i = 1]
    /\ UNCHANGED WaitVars

\* faulty variant: the loop ends at the first check that fails
HealthRunCheck_StopAtFailure ==
    /\ drv.script = "health" /\ drv.pc = "checks"
    /\ drv.i <= Len(HealthChecks(drv.skip_endpoints))
    /\ \E oks \in [1..MaxCheckCommands -> BOOLEAN], raised \in BOOLEAN :
         LET check_name == HealthChecks(drv.skip_endpoints)[drv.i]
             value == CheckFunction(check_name, drv.inventory, oks)
             failed == raised \/ ~value
             n == IF drv.inventory THEN CheckCommands(check_name) ELSE 0
         IN drv' = [Commands(drv, n) EXCEPT
                      !.i = IF failed THEN Len(HealthChecks(drv.skip_endpoints)) + 1
                            ELSE @ + 1,
                      !.executed = Append(@, check_name),
                      !.returned = Append(@, IF raised THEN "raised"
                                             ELSE IF value THEN "True" ELSE "False"),
                      !.failed_checks = IF failed THEN Append(@, check_name) ELSE @,
                      !.probeFailed = @ \/ (check_name = "monitoring endpoints"
                                            /\ drv.inventory /\ ~raised
                                            /\ \E k \in 1..CheckCommands(check_name) : ~oks[k])]
    /\ UNCHANGED WaitVars

\* one pass of the loop over the checks (lines 183-190)
HealthRunCheck ==
    /\ drv.script = "health" /\ drv.pc = "checks"
    /\ drv.i <= Len(HealthChecks(drv.skip_endpoints))
    /\ \E oks \in [1..MaxCheckCommands -> BOOLEAN], raised \in BOOLEAN :
         LET check_name == HealthChecks(drv.skip_endpoints)[drv.i]
             value == CheckFunction(check_name, drv.inventory, oks)
             failed == raised \/ ~value
             n == IF drv.inventory THEN CheckCommands(check_name) ELSE 0
         IN drv' = [Commands(drv, n) EXCEPT
                      !.i = @ + 1,
                      !.executed = Append(@, check_name),
                      !.returned = Append(@, IF raised THEN "raised"
                                             ELSE IF value THEN "True" ELSE "False"),
                      !.failed_checks = IF failed THEN Append(@, check_name) ELSE @,
                      !.probeFailed = @ \/ (check_name = "monitoring endpoints"
                                            /\ drv.inventory /\ ~raised
                                            /\ \E k \in 1..CheckCommands(check_name) : ~oks[k])]
    /\ UNCHANGED WaitVars

\* the summary (lines 192-208)
HealthSummary ==
    /\ drv.script = "health" /\ drv.pc = "checks"
    /\ drv.i > Len(HealthChecks(drv.skip_endpoints))
    /\ drv' = Exit(drv, IF drv.failed_checks = << >> THEN 0 ELSE 1)
    /\ UNCHANGED WaitVars

(***************************************************************************)
(* scripts/validate.py                                                     *)
(***************************************************************************)
NumPrerequisiteTests == 4   \* run_test calls of check_prerequisites (lines 68-73)
NumToolTests == 3           \* of which `command -v <tool>` (lines 68-70)
NumRequiredFiles == 6       \* required_files (lines 79-86)
NumImages == 6              \* images (lines 138-145)
NumConfigFiles == 3         \* config_files (lines 155-159)

\* run_test (lines 32-62): exit code 0 counts as passed; any other exit
\* code and the timeout count as failed
RunTest(d, r) ==
    IF Truthy(r) /\ r.returncode = 0
    THEN [Commands(d, 1) EXCEPT !.tests_passed = @ + 1, !.last = "passed"]
    ELSE [Commands(d, 1) EXCEPT !.tests_failed = @ + 1, !.last = "failed"]

\* moves to item i + 1 of a step with n items, or to the step `next`
Advance(d, n, next) ==
    IF d.i < n THEN [d EXCEPT !.i = @ + 1] ELSE [d EXCEPT !.pc = next, !.i = 1]

\* ValidationTest() (lines 27-30, 193-199)
ValidateStart ==
    /\ drv.script = "validate" /\ drv.pc = "start"
    /\ drv' = [drv EXCEPT !.pc = "prerequisites", !.i = 1,
                          !.tests_passed = 0, !.tests_failed = 0]
    /\ UNCHANGED WaitVars

\* one run_test of check_prerequisites (lines 64-73)
ValidateCheckPrerequisites ==
    /\ drv.script = "validate" /\ drv.pc = "prerequisites"
    /\ \E r \in CmdResults :
         LET d0 == IF drv.i = 1 THEN StartStage(drv, "prerequisite check") ELSE drv
             d1 == RunTest(d0, r)
             missing == drv.i <= NumToolTests /\ d1.last = "failed"
             d2 == IF missing /\ ~d1.prereqMissing
                   THEN [FailStage(d1, "prerequisite check")
                           EXCEPT !.prereqMissing = TRUE, !.missingAt = d1.cmds]
                   ELSE d1
         IN drv' = Advance(d2, NumPrerequisiteTests, "files")
    /\ UNCHANGED WaitVars

\* one file of check_file_structure (lines 75-96)
ValidateCheckFileStructure ==
    /\ drv.script = "validate" /\ drv.pc = "files"
    /\ \E exists \in BOOLEAN :
         LET d0 == IF drv.i = 1 THEN StartStage(drv, "file structure") ELSE drv
             d1 == IF exists
                   THEN [d0 EXCEPT !.tests_passed = @ + 1, !.last = "passed"]
                   ELSE [d0 EXCEPT !.tests_failed = @ + 1, !.last = "failed"]
         IN drv' = Advance(d1, NumRequiredFiles, "syntax")
    /\ UNCHANGED WaitVars

\* validate_ansible_syntax and test_template_rendering (lines 98-127)
ValidateAnsible ==
    /\ drv.script = "validate" /\ drv.pc \in {"syntax", "rendering"}
    /\ \E production_inventory \in BOOLEAN, r \in CmdResults :
         LET d == StartStage(drv, drv.pc)
         IN drv' = IF drv.pc = "syntax"
                   THEN [RunTest(d, r) EXCEPT !.pc = "rendering"]
                   ELSE IF ~production_inventory
                   THEN [d EXCEPT !.pc = "images", !.last = "skipped"]
                   ELSE [RunTest(d, r) EXCEPT !.pc = "images"]
    /\ UNCHANGED WaitVars

\* check_docker_images: the early return, or one docker pull (lines 129-148)
ValidateCheckDockerImages ==
    /\ drv.script = "validate" /\ drv.pc = "images"
    /\ \E r \in CmdResults :
         LET d0 == IF drv.i = 1 THEN StartStage(drv, "images") ELSE drv
         IN drv' = IF drv.skip_docker_pull
                   THEN [d0 EXCEPT !.pc = "config", !.last = "skipped"]
                   ELSE Advance([RunTest(d0, r) EXCEPT !.pulls = @ + 1],
                                NumImages, "config")
    /\ UNCHANGED WaitVars

\* faulty variant: a template that does not parse counts as failed
ValidateConfigFiles_ParseFails ==
    /\ drv.script = "validate" /\ drv.pc = "config"
    /\ \E exists \in BOOLEAN, parses \in BOOLEAN :
         LET d0 == IF drv.i = 1 THEN StartStage(drv, "config files") ELSE drv
             d1 == IF exists /\ parses
                   THEN [d0 EXCEPT !.tests_passed = @ + 1, !.last = "passed"]
                   ELSE IF exists
                   THEN [d0 EXCEPT !.tests_failed = @ + 1, !.last = "warning"]
                   ELSE [d0 EXCEPT !.tests_failed = @ + 1, !.last = "failed"]
         IN drv' = Advance(d1, NumConfigFiles, "summary")
    /\ UNCHANGED WaitVars

\* one template of validate_config_files (lines 150-176)
ValidateConfigFiles ==
    /\ drv.script = "validate" /\ drv.pc = "config"
    /\ \E exists \in BOOLEAN, parses \in BOOLEAN :
         LET d0 == IF drv.i = 1 THEN StartStage(drv, "config files") ELSE drv
             d1 == IF exists /\ parses
                   THEN [d0 EXCEPT !.tests_passed = @ + 1, !.last = "passed"]
                   ELSE IF exists
                   THEN [d0 EXCEPT !.last = "warning"]
                   ELSE [d0 EXCEPT !.tests_failed = @ + 1, !.last = "failed"]
         IN drv' = Advance(d1, NumConfigFiles, "summary")
    /\ UNCHANGED WaitVars

\* print_summary and the exit of main (lines 178-189, 209-211)
ValidateSummary ==
    /\ drv.script = "validate" /\ drv.pc = "summary"
    /\ LET success == drv.tests_failed = 0
       IN drv' = Exit([drv EXCEPT !.successMsg = success], IF success THEN 0 ELSE 1)
    /\ UNCHANGED WaitVars

(***************************************************************************)
(* A run of one driver.                                                    *)
(***************************************************************************)
Scripts == {"local", "deploy", "health", "validate"}

InitDrivers ==
    /\ \E script \in Scripts, action \in Actions, skip \in BOOLEAN, inventory \in BOOLEAN :
         /\ script # "deploy" => action = "check"
         /\ script \notin {"health", "validate"} => ~skip
         /\ script # "health" => inventory
         /\ drv = [NewDriver(script) EXCEPT
                     !.action = IF script = "deploy" THEN action ELSE "none",
                     !.skip_endpoints = script = "health" /\ skip,
                     !.inventory = inventory,
                     !.skip_docker_pull = script = "validate" /\ skip]
    /\ fn = "container" /\ container_name = "test-vps" /\ timeout = ShortTimeout
    /\ env = [container |-> "absent", systemd |-> "starting", ssh |-> "inactive",
              listening |-> FALSE]
    /\ pc = "done" /\ elapsed = 0 /\ ret = FALSE /\ reason = "none"
    /\ h = NewHistory(FALSE)
    /\ calls = 1
    /\ prev = NoPrev

NextDrivers ==
    \/ LocalDockerInfo
    \/ LocalCompose
    \/ LocalWaitContainer
    \/ LocalWaitSsh
    \/ LocalSetupSsh
    \/ LocalAnsible
    \/ LocalProbes
    \/ DeployStart
    \/ DeployCheckPrerequisites
    \/ DeployAction
    \/ HealthStart
    \/ HealthRunCheck
    \/ HealthSummary
    \/ ValidateStart
    \/ ValidateCheckPrerequisites
    \/ ValidateCheckFileStructure
    \/ ValidateAnsible
    \/ ValidateCheckDockerImages
    \/ ValidateConfigFiles
    \/ ValidateSummary

SpecDrivers == InitDrivers /\ [][NextDrivers]_vars

(***************************************************************************)
(* A call of one of the waits.                                             *)
(***************************************************************************)
Timeouts == {ShortTimeout, LongTimeout}

InitEnvs(f) ==
    IF f = "container"
    THEN {[container |-> c, systemd |-> s, ssh |-> "inactive", listening |-> FALSE] :
            c \in ContainerStates, s \in SystemdStates}
    ELSE {[container |-> c, systemd |-> "running", ssh |-> s, listening |-> l] :
            c \in {"running", "exited"}, s \in SshStates, l \in BOOLEAN}

Init ==
    /\ fn \in {"container", "ssh"}
    /\ container_name \in {"test-vps", "web"}
    /\ fn = "ssh" => container_name = "test-vps"
    /\ timeout \in Timeouts
    /\ env \in InitEnvs(fn)
    /\ env.container # "running" => env.systemd = "starting"
    /\ env.ssh # "active" => ~env.listening
    /\ pc = "loop" /\ elapsed = 0 /\ ret = FALSE /\ reason = "none"
    /\ h = NewHistory(TargetReady)
    /\ calls = 1
    /\ prev = NoPrev
    /\ drv = NoDriver

Next ==
    \/ PollStatus
    \/ PollStopped
    \/ FetchLogs
    \/ SystemdCheck
    \/ SleepNotFoundStep
    \/ SleepNotUpStep
    \/ SleepPollStep
    \/ ContainerTimeout
    \/ SshCheckActive
    \/ SshCheckPort
    \/ SshStart
    \/ SshStatus
    \/ SshSleepStep
    \/ SshDiagnostics
    \/ EnvStep

Spec == Init /\ [][Next]_vars

\* Consecutive calls of one wait on one target, under the short timeout.
\* One call of a wait that keeps running: the target may change or not at
\* any time (no fairness for EnvStep), the call always takes its next step.
SpecFair == Init /\ [][Next]_vars /\ WF_vars(WaitStep)

InitTwice == Init /\ timeout = ShortTimeout

NextTwice == Next \/ CallAgain

SpecTwice == InitTwice /\ [][NextTwice]_vars

(***************************************************************************)
(* Properties.                                                             *)
(***************************************************************************)
Done == pc = "done"

Range(q) == {q[i] : i \in 1..Len(q)}

\* C1: once a poll of wait_for_container_healthy is classified Exited, the
\* call does nothing but fetch the logs and return False: no further status
\* probe, no sleep, and the only time that passes is that of the log fetch.
C1_ExitedFailsFast ==
    [][(fn = "container" /\ h.cls = "Exited" /\ ~Done) =>
          /\ pc' \in {pc, "done"}
          /\ pc' = pc => (h'.ops = h.ops /\ elapsed' = elapsed)
          /\ pc' = "done" =>
               /\ ret' = FALSE
               /\ h'.ops = Append(h.ops, "logs")
               /\ h'.sleeps = h.sleeps /\ h'.polls = h.polls
               /\ elapsed' - h.clsAt <= DefaultCmdTimeout]_vars

\* C1 witness: a call that returned False on an Exited classification in a
\* later poll, before the deadline.
C1_Witness ==
    /\ fn = "container" /\ Done /\ h.cls = "Exited" /\ ~ret
    /\ h.polls >= 2 /\ elapsed < timeout

\* C2: a poll whose status probe returned None or failed to execute is
\* treated as Absent, whatever the state of the container: the wait does not
\* end in that poll, so when it has ended in it, it ended by the deadline.
\* Stated for the case the claim names, a container that is running.
C2_FailedProbeKeepsPolling ==
    (fn = "container" /\ Done /\ h.probeFailed /\ env.container = "running"
        /\ h.polls = 1 /\ h.readyAtCall) =>
        (reason = "timeout" /\ elapsed >= timeout)

\* C3: a Ready classification made before the deadline ends the call at
\* once: it returns True, and the elapsed time at the return is that of the
\* classification, less than timeout.
C3_ReadyBeforeDeadline ==
    (fn = "container" /\ h.cls = "Ready" /\ h.clsAt < timeout) =>
        (Done /\ ret /\ reason = "ready" /\ elapsed = h.clsAt /\ elapsed < timeout)

\* C3 witness: True returned before the deadline after polls that were
\* Absent and Starting.
C3_Witness ==
    /\ fn = "container" /\ Done /\ ret /\ elapsed < timeout
    /\ h.seen = {"Absent", "Starting", "Ready"} /\ h.polls >= 3

\* C4: a call whose polls were all Absent or Starting returns False, and not
\* before timeout seconds have elapsed.
C4_NeverReadyTimesOut ==
    (fn = "container" /\ Done /\ h.seen \subseteq {"Absent", "Starting"}) =>
        (~ret /\ reason = "timeout" /\ elapsed >= timeout)

\* C4 witness: a call that timed out after Absent and Starting polls.
C4_Witness ==
    /\ fn = "container" /\ Done /\ h.seen = {"Absent", "Starting"}
    /\ ~ret /\ elapsed >= timeout /\ h.polls >= 2

\* C5 as stated: with every poll Absent the call returns at an elapsed time
\* t with timeout <= t < timeout + interval (3 s).
C5_AbsentWithinInterval ==
    (fn = "container" /\ Done /\ h.seen = {"Absent"}) =>
        (timeout <= elapsed /\ elapsed < timeout + SleepNotFound)

\* C5 amended: with every poll Absent the call returns False at an elapsed
\* time t with timeout <= t < timeout + interval + 2 * 300: the last poll
\* begins before the deadline and costs its two listings, each bounded by
\* run_command's 300 s timeout, and the 3 s sleep.
C5_AbsentBound ==
    (fn = "container" /\ Done /\ h.seen = {"Absent"}) =>
        /\ ~ret
        /\ timeout <= elapsed
        /\ h.pollStart < timeout
        /\ elapsed <= h.pollStart + 2 * DefaultCmdTimeout + SleepNotFound
        /\ elapsed < timeout + SleepNotFound + 2 * DefaultCmdTimeout

\* C5 witness: an all-Absent call that returned later than timeout +
\* interval.
C5_Witness ==
    /\ fn = "container" /\ Done /\ h.seen = {"Absent"}
    /\ timeout = ShortTimeout /\ elapsed >= timeout + SleepNotFound

\* C6: of two calls of wait_for_container_healthy, one ended by the timeout
\* and one by an Exited classification, the returned values differ.
C6_DistinctOutcomes ==
    (fn = "container" /\ calls >= 2 /\ Done
        /\ {prev.reason, reason} = {"timeout", "exited"}) => prev.ret # ret

\* C7: a call of wait_for_container_healthy fetches the logs exactly once
\* when it ends on an Exited classification, and never otherwise.
C7_LogFetchCount ==
    fn = "container" =>
        /\ h.logFetches = (IF Done /\ reason = "exited" THEN 1 ELSE 0)
        /\ Done => (reason = "exited" <=> h.cls = "Exited")

\* C7 witness: Starting, Starting, then Exited on the third poll: False
\* with one log fetch after two sleeps of 2 s.
C7_Witness ==
    /\ fn = "container" /\ Done /\ ~ret /\ reason = "exited"
    /\ h.polls = 3 /\ h.sleeps = 2 /\ h.seen = {"Starting", "Exited"}
    /\ h.logFetches = 1 /\ h.clsAt >= 2 * SleepNotUp /\ elapsed < timeout

\* C8: two consecutive calls on a target that is ready when each begins,
\* stays as it is and answers every command: each returns True on its first
\* poll without sleeping, neither issues `systemctl start ssh`, and the
\* target is not changed: it changes only in a step that marks the call as
\* disturbed (the target moved by itself) or as having changed the target.
C8_ReadyIdempotent ==
    /\ []((calls >= 2 /\ Done /\ prev.quiet /\ Outcome.quiet) =>
            /\ prev.ret /\ prev.immediate /\ ~prev.started /\ ~prev.changed
            /\ ret /\ Outcome.immediate /\ ~h.started /\ ~h.changed
            /\ h.ops \in {<<"ps">>, <<"ps", "systemd">>, <<"active", "port">>})
    /\ [][env' # env => (calls' = calls /\ (h'.disturbed \/ h'.changed))]_vars

\* C8 witness: the second call on a ready ssh service has returned.
C8_Witness ==
    /\ fn = "ssh" /\ calls = 2 /\ Done /\ prev.quiet /\ Outcome.quiet /\ ret /\ prev.ret

\* C9 as stated: no command of a wait changes the target, and none that can
\* is issued.
C9_ReadOnly == ~h.started /\ ~h.changed

\* C9 amended: wait_for_container_healthy issues only status queries.
\* wait_for_ssh_service issues status queries and, at most once in a poll
\* and only in a poll that did not report the service active, `systemctl
\* start ssh`; that command is the only one that changes the target, and it
\* changes the ssh service, never the container.
C9_OnlyStartChanges ==
    /\ [](/\ fn = "container" => (~h.started /\ ~h.changed /\ "start" \notin Range(h.ops))
          /\ "start" \in Range(h.ops) =>
               (~h.activeOk /\ Cardinality({i \in 1..Len(h.ops) : h.ops[i] = "start"}) = 1))
    /\ [][env' # env =>
            \/ h'.ops = h.ops /\ elapsed' = elapsed
            \/ /\ h'.ops = Append(h.ops, "start")
               /\ env'.container = env.container /\ env'.systemd = env.systemd]_vars

\* C9 witness: a start that changed the ssh service.
C9_Witness == fn = "ssh" /\ h.started /\ h.changed /\ ~h.disturbed /\ env.ssh = "active"

\* C10: wait_for_ssh_service returns True only from a poll that began
\* before the deadline and in which the service was reported active (exit
\* code 0 and 'active' in the output) and the port check exited 0.
C10_SuccessNeedsBoth ==
    (fn = "ssh" /\ Done /\ ret) =>
        /\ h.activeOk /\ h.portOk
        /\ h.pollStart < timeout
        /\ h.ops = <<"active", "port">>

\* C10 witness: True returned in a later poll, after a start attempt and a
\* poll that found the service active but not listening.
C10_Witness ==
    /\ fn = "ssh" /\ Done /\ ret /\ h.started /\ h.polls >= 3

(***************************************************************************)
(* Properties of the drivers, checked under SpecDrivers.                   *)
(***************************************************************************)
Exited == drv.pc = "exit"

LastStage == drv.stages[Len(drv.stages)]

\* C11: in the local end-to-end driver a failure in any stage (prerequisite
\* check, container wait, ssh wait, credential installation with each of
\* its docker exec commands, orchestration invocation) ends the run at that
\* stage with a non-zero exit code; in particular the orchestration is not
\* invoked after a credential-installation command failed.
C11_FailureHalts ==
    drv.script = "local" =>
        /\ drv.failedAt # "none" =>
             (Exited /\ drv.code # 0 /\ LastStage = drv.failedAt)
        /\ drv.credFailed => "orchestration invocation" \notin Range(drv.stages)

\* the stages of the local driver in the order main runs them
LocalOrder ==
    <<"prerequisite check", "container wait", "ssh wait",
      "credential installation", "orchestration invocation", "http probes">>

\* C12: in every run of the local driver the stages started so far are an
\* initial part of prerequisite check, container wait, ssh wait, credential
\* installation, orchestration invocation, http probes (so each is started
\* at most once and none out of order), and the ssh wait is started only
\* after the container wait returned True.
C12_StageOrder ==
    drv.script = "local" =>
        /\ Len(drv.stages) <= Len(LocalOrder)
        /\ drv.stages = SubSeq(LocalOrder, 1, Len(drv.stages))
        /\ "ssh wait" \in Range(drv.stages) => drv.containerOk

\* C12 witness: a run that started all six stages.
C12_Witness == drv.script = "local" /\ Exited /\ drv.stages = LocalOrder

\* C13: the deploy driver exits with 0 exactly when the ansible-playbook
\* invocation of the requested action was made and succeeded, with 1
\* otherwise, for each of check, plan, apply and cleanup; the success
\* message is never printed after a failed invocation.
C13_ExitReflectsPlaybook ==
    (drv.script = "deploy" /\ Exited) =>
        /\ drv.code \in {0, 1}
        /\ drv.code = 0 <=> (drv.invoked /\ drv.invokedOk)
        /\ drv.successMsg => (drv.invoked /\ drv.invokedOk)

\* C14: in the deploy, local test and validation drivers a tool found
\* missing by the prerequisite check ends the run there: the process has
\* exited with a non-zero code, no stage was started and no external command
\* was run after the check that found it.
C14_MissingToolFatal ==
    (drv.script \in {"deploy", "local", "validate"} /\ drv.prereqMissing) =>
        /\ Exited /\ drv.code # 0
        /\ LastStage = "prerequisite check"
        /\ drv.cmds = drv.missingAt

\* C15: an HTTP probe that fails does not fail the run.  In the local test
\* driver the run that reaches the probes ends with exit code 0 whichever
\* of the three endpoints respond; in the health-check driver the endpoint
\* check, when its inventory file exists and it raised nothing, returns True
\* whatever its probes did and is not added to the failed checks.
C15_ProbesNeverFail ==
    /\ (drv.script = "local" /\ "http probes" \in Range(drv.stages)) =>
          (Exited /\ drv.code = 0 /\ drv.successMsg)
    /\ drv.script = "health" =>
          /\ \A k \in 1..Len(drv.executed) :
                (drv.executed[k] = "monitoring endpoints" /\ drv.inventory
                   /\ drv.returned[k] # "raised") => drv.returned[k] = "True"
          /\ drv.probeFailed =>
                /\ "monitoring endpoints" \in Range(drv.executed)
                /\ "monitoring endpoints" \notin Range(drv.failed_checks)

\* C15 witness: a health check run in which an endpoint probe failed and
\* that ended with exit code 0.
C15_Witness ==
    /\ drv.script = "health" /\ Exited /\ drv.code = 0
    /\ drv.probeFailed /\ "monitoring endpoints" \in Range(drv.executed)

\* the checks that did not return True
FailedChecks == {k \in 1..Len(drv.executed) : drv.returned[k] # "True"}

\* C18 as claimed: every run of the health-check driver executes every
\* configured check and exits 1 exactly when one of them returned False or
\* raised.
C18_EveryRun ==
    (drv.script = "health" /\ Exited) =>
        /\ drv.executed = HealthChecks(drv.skip_endpoints)
        /\ drv.code = 1 <=> FailedChecks # {}

\* C18: when the ansible directory exists, the health-check driver runs
\* every configured check in order, whatever earlier checks returned, and
\* exits with 1 exactly when an executed check returned False or raised,
\* else with 0; with --skip-endpoints the endpoint check is never run.
\* Without the ansible directory it runs no check and exits with 1.
C18_AllChecksRun ==
    drv.script = "health" =>
        /\ drv.skip_endpoints => "monitoring endpoints" \notin Range(drv.executed)
        /\ Len(drv.executed) <= Len(HealthChecks(drv.skip_endpoints))
        /\ drv.executed = SubSeq(HealthChecks(drv.skip_endpoints), 1, Len(drv.executed))
        /\ Range(drv.failed_checks) = {drv.executed[k] : k \in FailedChecks}
        /\ (Exited /\ drv.i > 0) =>
             /\ drv.executed = HealthChecks(drv.skip_endpoints)
             /\ drv.code \in {0, 1}
             /\ drv.code = 1 <=> FailedChecks # {}
        /\ (Exited /\ drv.i = 0) => (drv.executed = << >> /\ drv.code = 1)

\* C18 witness: all five checks were run although the first returned False,
\* and the run ended with 1.
C18_Witness ==
    /\ drv.script = "health" /\ Exited /\ drv.code = 1 /\ ~drv.skip_endpoints
    /\ Len(drv.executed) = Len(HealthChecks(FALSE))
    /\ drv.returned[1] = "False"
    /\ \E k \in 1..Len(drv.returned) : drv.returned[k] = "raised"

\* C20: in the validation driver tests_passed and tests_failed never
\* decrease and one step of it adds one to at most one of them; the process
\* exits with 0 exactly when tests_failed is 0 at the summary; a monitoring
\* template that exists but does not parse changes neither counter; with
\* the image-pull toggle set the image-pull step changes neither counter
\* and runs no command.
C20_Counters ==
    /\ [](drv.script = "validate" =>
            /\ Exited => (drv.code \in {0, 1} /\ (drv.code = 0 <=> drv.tests_failed = 0))
            /\ drv.skip_docker_pull => drv.pulls = 0)
    /\ [][drv.script = "validate" =>
            /\ drv'.tests_passed >= drv.tests_passed
            /\ drv'.tests_failed >= drv.tests_failed
            /\ (drv'.tests_passed - drv.tests_passed)
                 + (drv'.tests_failed - drv.tests_failed) <= 1
            /\ drv'.last = "warning" =>
                 (drv'.tests_passed = drv.tests_passed /\ drv'.tests_failed = drv.tests_failed)
            /\ (drv.pc = "images" /\ drv.skip_docker_pull) =>
                 /\ drv'.tests_passed = drv.tests_passed
                 /\ drv'.tests_failed = drv.tests_failed
                 /\ drv'.cmds = drv.cmds]_vars

\* C20 witness: a run with the toggle set that passed tests, failed tests,
\* met a template that does not parse, and ended with 1.
C20_Witness ==
    /\ drv.script = "validate" /\ Exited /\ drv.code = 1 /\ drv.skip_docker_pull
    /\ drv.last = "warning" /\ drv.tests_passed > 0 /\ drv.tests_failed > 0

(***************************************************************************)
(* Further properties of the waits.                                        *)
(***************************************************************************)
\* C16: every call of wait_for_container_healthy and wait_for_ssh_service
\* returns, with a boolean, whatever the external commands do, hanging
\* commands included: a command that exceeds its timeout gives None and the
\* call goes on, and whenever the call comes back to the head of its loop
\* the clock has advanced, so the deadline is passed in the end.
C16_Terminates ==
    /\ <>Done
    /\ [](Done => ret \in BOOLEAN)
    /\ [][(pc # "loop" /\ pc' = "loop" /\ calls' = calls) => elapsed' > elapsed]_vars

\* C16 witness: a container wait that returned False at the deadline after
\* the systemd check of its last poll had run into its timeout.
C16_Witness ==
    /\ fn = "container" /\ Done /\ ~ret /\ reason = "timeout"
    /\ h.sysRes = <<None>> /\ h.polls >= 2

\* C17: for test-vps, a poll whose status starts with 'Up' runs the systemd
\* check and is Ready exactly when that check returned exit code 0 or 1;
\* with any other exit code or a timeout the poll is not ready, sleeps and
\* polling goes on.  For another container name no systemd check is run and
\* 'Up' alone is Ready.
C17_SystemdDecides ==
    fn = "container" =>
        /\ (container_name = "test-vps" /\ h.sysRes # << >>) =>
             LET r == h.sysRes[1]
                 ok == ~r.none /\ r.returncode \in {0, 1}
             IN /\ h.ops[1] = "ps" /\ h.ops[2] = "systemd"
                /\ ok <=> h.cls = "Ready"
                /\ ok => (Done /\ ret /\ reason = "ready")
                /\ ~ok =>
                     /\ h.cls = "Starting"
                     /\ \/ pc = "sleep3" /\ h.ops = <<"ps", "systemd">>
                        \/ /\ h.ops = <<"ps", "systemd", "sleep">>
                           /\ pc = "loop" \/ (Done /\ ~ret /\ reason = "timeout")
        /\ (container_name = "test-vps" /\ Done /\ ret) => h.sysRes # << >>
        /\ container_name # "test-vps" =>
             /\ h.sysRes = << >> /\ "systemd" \notin Range(h.ops)
             /\ (Done /\ ret) => (h.cls = "Ready" /\ h.ops = <<"ps">>)
             /\ (env.container = "running" /\ ~h.disturbed /\ h.polls >= 1) =>
                  (Done /\ ret /\ h.cls = "Ready")

\* C17 witness: test-vps was reported Ready by a systemd check that exited
\* with 1, in a later poll than one whose systemd check was not accepted.
C17_Witness ==
    /\ fn = "container" /\ container_name = "test-vps" /\ Done /\ ret
    /\ h.sysRes # << >> /\ h.sysRes[1].returncode = 1
    /\ h.polls >= 2 /\ h.sleeps >= 1 /\ "Starting" \in h.seen

\* C19: wait_for_ssh_service returns False only at the head of the loop
\* once elapsed >= timeout, whatever the probes reported, also when every
\* docker exec fails because the container has exited; on that path it runs
\* the final diagnostic commands once, and on no other.  In a poll that did
\* not find the service active it makes one start attempt, never more.
C19_NoFailFast ==
    fn = "ssh" =>
        /\ (Done /\ ~ret) =>
             (elapsed >= timeout /\ reason = "timeout" /\ h.diag = NumDiagnostics)
        /\ (~Done \/ ret) => h.diag = 0
        /\ Cardinality({i \in 1..Len(h.ops) : h.ops[i] = "start"}) <= 1
        /\ "start" \in Range(h.ops) => ~h.activeOk
        /\ (~Done /\ pc \notin {"loop", "start"} /\ ~h.activeOk) => "start" \in Range(h.ops)

\* C19 witness: the container had exited, start attempts failed in several
\* polls, and False came only at the deadline, after the diagnostics.
C19_Witness ==
    /\ fn = "ssh" /\ Done /\ ~ret /\ env.container = "exited"
    /\ h.started /\ ~h.changed /\ h.polls >= 2 /\ h.diag = NumDiagnostics
====
